---- MODULE Spec2Model ----
(***************************************************************************)
(* A model of components/global/dom.js: the Listeners registry on top of   *)
(* the host's addEventListener/removeEventListener, isMounted and getRect  *)
(* over a bounded document tree, and applyMethodToClasses over class       *)
(* strings.                                                                *)
(***************************************************************************)
EXTENDS Integers, Sequences, FiniteSets, TLC

\* ------------------------------------------------------------------ bounds
\* How many times Listeners.add is called in one behaviour.
MaxHandles == 2
\* How many events the host may hold undelivered at once.
MaxPending == 1
\* How many nodes the document tree draws from, the root element included.
MaxNodes == 3
\* How many getRect calls one behaviour makes.
MaxCalls == 2
\* The longest class string passed to addClasses / removeClasses.
MaxLen == 4

\* ------------------------------------------------------- the host's values
Els == {"el1", "el2"}
Events == {"click"}
Handlers == {"fn"}
Regs == {"regA", "regB"}

\* What addEventListener identifies a listener by; an omitted useCapture
\* registers as false.
Subs == [el : Els, event : Events, handler : Handlers, capture : BOOLEAN]

VARIABLES
  platform,   \* the host's listener lists: {[sub, via]}, via = the handle whose add attached it
  closures,   \* the dispatchFn closures created so far; a handle is an index
  all,        \* all[r]: the _all Set of registry r, in insertion order
  called,     \* the handles whose dispatchFn has run
  pending,    \* events the host has queued and not yet dispatched
  last        \* the last operation and what it saw

lvars == <<platform, closures, all, called, pending, last>>

VARIABLES
  parent,     \* parent[n]: the parentNode of node n (NULL: none)
  kind,       \* kind[n]: "element", or "chardata" for a text or comment node
  heap,       \* the rectangle objects, by address; heap[StubAddr] is rectStub
  calls,      \* the getRect calls made: argument, outcome, address returned
  mounted     \* the last isMounted call: argument and result

dvars == <<parent, kind, heap, calls, mounted>>

VARIABLES
  classList,  \* the DOMTokenList: its tokens, in order
  cprev,      \* the tokens before the call
  cin,        \* the call made: verb, whether classes was undefined, the string
  applied,    \* the calls classList[method](className) made, in order
  cthrew,     \* whether the call threw
  cdone       \* whether the call has been made

cvars == <<classList, cprev, cin, applied, cthrew, cdone>>

vars == <<lvars, dvars, cvars>>

Range(s) == {s[i] : i \in 1..Len(s)}

PlatformSubs(pl) == {x.sub : x \in pl}

SubOf(h) == closures[h].sub

\* ------------------------------------------------------------- the platform
\* EventTarget.addEventListener: a listener with the same (type, callback,
\* capture) on the same target is not added again.
AddEventListener(pl, s, h) ==
  IF \E x \in pl : x.sub = s THEN pl ELSE pl \cup {[sub |-> s, via |-> h]}

RemoveEventListener(pl, s) == {x \in pl : x.sub # s}

\* --------------------------------------------------------------- JS Set
SetAdd(seq, v) == IF v \in Range(seq) THEN seq ELSE Append(seq, v)

SetDelete(seq, v) == SelectSeq(seq, LAMBDA x : x # v)

\* ------------------------------------------------------------- Listeners
\* The registry part of a state, as the handlers transform it.
Store == [platform |-> platform, all |-> all, called |-> called]

\* A closure that also deletes itself from every registry holding it.
DispatchFnSelfDeleting(st, h, s) ==
  [st EXCEPT !.platform = RemoveEventListener(@, s), !.called = @ \cup {h},
             !.all = [r \in DOMAIN @ |-> SetDelete(@[r], h)]]

\* dispatchFn = () => el.removeEventListener(event, handler, useCapture)
DispatchFn(st, h, s) ==
  [st EXCEPT !.platform = RemoveEventListener(@, s), !.called = @ \cup {h}]

\* An add that keeps one entry per (element, event, handler, capture).
AddEffectKeyedBySub(st, r, h, s) ==
  [st EXCEPT !.platform = AddEventListener(@, s, h),
             !.all[r] = IF \E k \in Range(@) : closures[k].sub = s
                        THEN @ ELSE SetAdd(@, h)]

\* add(el, event, handler, useCapture), h the closure it creates
AddEffect(st, r, h, s) ==
  [st EXCEPT !.platform = AddEventListener(@, s, h),
             !.all[r] = SetAdd(@, h)]

\* A remove that forgets to call fn.
RemoveEffectDeleteOnly(st, r, h, s) ==
  [st EXCEPT !.all[r] = SetDelete(@, h), !.called = @ \cup {h}]

\* remove(fn) { fn(); this._all.delete(fn); }
RemoveEffect(st, r, h, s) ==
  LET st1 == DispatchFn(st, h, s)
  IN  [st1 EXCEPT !.all[r] = SetDelete(@, h)]

\* Set.prototype.forEach(fn => this.remove(fn)): the entries are visited in
\* insertion order; an entry deleted before its turn is not visited.
RECURSIVE ForEachRemove(_, _, _, _)
ForEachRemove(st, r, todo, subOf) ==
  IF todo = <<>> THEN st
  ELSE LET h == Head(todo)
           st1 == IF h \in Range(st.all[r])
                  THEN RemoveEffect(st, r, h, subOf[h])
                  ELSE st
       IN  ForEachRemove(st1, r, Tail(todo), subOf)

\* An iteration by index over the live collection: each deletion shifts the
\* remaining entries, and the entry that moves into the visited slot is skipped.
RECURSIVE ForEachRemoveByIndex(_, _, _, _)
ForEachRemoveByIndex(st, r, i, subOf) ==
  IF i > Len(st.all[r]) THEN st
  ELSE ForEachRemoveByIndex(RemoveEffect(st, r, st.all[r][i], subOf[st.all[r][i]]),
                            r, i + 1, subOf)

RemoveAllEffectByIndex(st, r, subOf) == ForEachRemoveByIndex(st, r, 1, subOf)

\* removeAll() { this._all.forEach(fn => this.remove(fn)); }
RemoveAllEffect(st, r, subOf) == ForEachRemove(st, r, st.all[r], subOf)

ClosureSubs == [h \in 1..Len(closures) |-> closures[h].sub]

Tracked == UNION {Range(all[r]) : r \in Regs}

\* The tracked handles whose handler the host would invoke.
ActiveTracked == {h \in Tracked : SubOf(h) \in PlatformSubs(platform)}

NoOp == [op |-> "init", reg |-> "regA", h |-> 0, before |-> 0, tracked |-> FALSE,
         hs |-> {}, active |-> {}, invoked |-> {}]

Commit(st) ==
  /\ platform' = st.platform
  /\ all' = st.all
  /\ called' = st.called


Add(r, s) ==
  /\ Len(closures) < MaxHandles
  /\ LET h == Len(closures) + 1
     IN  /\ closures' = Append(closures, [sub |-> s, owner |-> r])
         /\ Commit(AddEffect(Store, r, h, s))
         /\ last' = [NoOp EXCEPT !.op = "add", !.reg = r, !.h = h,
                                 !.before = Len(all[r]),
                                 !.active = ActiveTracked]
  /\ UNCHANGED pending
  /\ UNCHANGED <<dvars, cvars>>

RemoveOp(r, h) ==
  /\ Commit(RemoveEffect(Store, r, h, SubOf(h)))
  /\ last' = [NoOp EXCEPT !.op = "remove", !.reg = r, !.h = h,
                          !.before = Len(all[r]),
                          !.tracked = (h \in Range(all[r])),
                          !.active = ActiveTracked]
  /\ UNCHANGED <<closures, pending>>
  /\ UNCHANGED <<dvars, cvars>>

\* registry.remove(h) with a handle this registry returned
Remove(r, h) ==
  /\ closures[h].owner = r
  /\ RemoveOp(r, h)

RemoveAll(r) ==
  /\ Commit(RemoveAllEffect(Store, r, ClosureSubs))
  /\ last' = [NoOp EXCEPT !.op = "removeAll", !.reg = r,
                          !.before = Len(all[r]),
                          !.hs = Range(all[r]),
                          !.active = ActiveTracked]
  /\ UNCHANGED <<closures, pending>>
  /\ UNCHANGED <<dvars, cvars>>

\* The caller invokes the returned closure itself.
CallHandle(h) ==
  /\ Commit(DispatchFn(Store, h, SubOf(h)))
  /\ last' = [NoOp EXCEPT !.op = "call", !.reg = closures[h].owner, !.h = h,
                          !.before = Len(all[closures[h].owner]),
                          !.tracked = (h \in Range(all[closures[h].owner])),
                          !.active = ActiveTracked]
  /\ UNCHANGED <<closures, pending>>
  /\ UNCHANGED <<dvars, cvars>>

\* The host queues an event for a target.
Post(e, ev) ==
  /\ Cardinality(pending) < MaxPending
  /\ [el |-> e, event |-> ev] \notin pending
  /\ pending' = pending \cup {[el |-> e, event |-> ev]}
  /\ UNCHANGED <<platform, closures, all, called, last>>
  /\ UNCHANGED <<dvars, cvars>>

\* The host dispatches a queued event: it invokes the listeners attached to
\* the target for that event type at this moment.
Dispatch(p) ==
  /\ pending' = pending \ {p}
  /\ last' = [NoOp EXCEPT !.op = "dispatch",
                          !.invoked = {x \in platform :
                                         x.sub.el = p.el /\ x.sub.event = p.event}]
  /\ UNCHANGED <<platform, closures, all, called>>
  /\ UNCHANGED <<dvars, cvars>>


\* ------------------------------------------------------- the document tree
Nodes == 1..MaxNodes
\* document
DOC == 0
\* null
NULL == -1
\* a Range object
RANGE == -2
\* document.documentElement
DocumentElement == 1
\* The address of the module-level rectStub object.
StubAddr == 1

Values == Nodes \cup {DOC, NULL, RANGE}

\* node instanceof Node
IsNode(v) == v \in Nodes \cup {DOC}

\* node.parentNode; the document has none
ParentNode(v) == IF v = DOC THEN NULL ELSE parent[v]

\* Node.prototype.contains(other): other is this node or a descendant of it;
\* contains(null) is false.
RECURSIVE Contains(_, _)
Contains(a, b) ==
  IF b = NULL THEN FALSE
  ELSE IF b = a THEN TRUE
  ELSE Contains(a, ParentNode(b))

\* isMounted(node): the document, or a Node whose parentNode the root
\* element contains
isMounted(node) ==
  IF node = DOC THEN TRUE
  ELSE IsNode(node) /\ Contains(DocumentElement, ParentNode(node))

ZeroRect == [top |-> 0, right |-> 0, bottom |-> 0, left |-> 0, width |-> 0, height |-> 0]

\* What the host's getBoundingClientRect() reports for v.
NativeRect(v) ==
  LET k == IF v = RANGE THEN MaxNodes + 1 ELSE v
  IN  [top |-> k, right |-> 3 * k, bottom |-> k + 1, left |-> k,
       width |-> 2 * k, height |-> 1]

\* Elements and ranges have getBoundingClientRect; the document, text and
\* comment nodes do not.
HasGetBoundingClientRect(v) ==
  \/ v = RANGE
  \/ v \in Nodes /\ kind[v] = "element"

\* A getRect whose else branch returns rectStub itself.
getRectSharedStub(hp, node) ==
  IF node = RANGE \/ isMounted(node)
  THEN IF HasGetBoundingClientRect(node)
       THEN [threw |-> FALSE, heap |-> Append(hp, NativeRect(node)), ref |-> Len(hp) + 1]
       ELSE [threw |-> TRUE, heap |-> hp, ref |-> 0]
  ELSE [threw |-> FALSE, heap |-> hp, ref |-> StubAddr]

\* getRect(node) on heap hp: the heap afterwards and the address returned, or
\* the TypeError of calling a method the node does not have.
getRect(hp, node) ==
  IF node = RANGE \/ isMounted(node)
  THEN IF HasGetBoundingClientRect(node)
       THEN [threw |-> FALSE, heap |-> Append(hp, NativeRect(node)), ref |-> Len(hp) + 1]
       ELSE [threw |-> TRUE, heap |-> hp, ref |-> 0]
  ELSE [threw |-> FALSE, heap |-> Append(hp, hp[StubAddr]), ref |-> Len(hp) + 1]

\* The trees the host can hold: node 1 is the root element, the document's
\* only element child; text and comment nodes have no children; no cycles.
\* Nodes are numbered so that a parent comes before its children.
RECURSIVE Rooted(_, _, _)
Rooted(p, n, fuel) ==
  IF n \in {NULL, DOC} THEN TRUE
  ELSE IF fuel = 0 THEN FALSE
  ELSE Rooted(p, p[n], fuel - 1)

WellFormedTree(p, k) ==
  /\ p[DocumentElement] = DOC
  /\ k[DocumentElement] = "element"
  /\ \A n \in Nodes : Rooted(p, n, MaxNodes)
  /\ \A n \in Nodes : p[n] \in Nodes => p[n] < n
  /\ \A n \in Nodes : p[n] \in Nodes => k[p[n]] = "element"
  /\ \A n \in Nodes \ {DocumentElement} : p[n] = DOC => k[n] = "chardata"

IsMountedCall(v) ==
  /\ mounted' = [arg |-> v, result |-> isMounted(v)]
  /\ UNCHANGED <<parent, kind, heap, calls>>
  /\ UNCHANGED <<lvars, cvars>>

GetRectCall(v) ==
  /\ Len(calls) < MaxCalls
  /\ LET res == getRect(heap, v)
     IN  /\ heap' = res.heap
         /\ calls' = Append(calls,
               [arg |-> v, threw |-> res.threw, ref |-> res.ref,
                ret |-> IF res.threw THEN ZeroRect ELSE res.heap[res.ref],
                expect |-> IF res.threw THEN ZeroRect ELSE res.heap[res.ref]])
  /\ UNCHANGED <<parent, kind, mounted>>
  /\ UNCHANGED <<lvars, cvars>>

\* A caller writes to a field of the rectangle that call i returned.
MutateResult(i, f) ==
  /\ ~calls[i].threw
  /\ heap' = [heap EXCEPT ![calls[i].ref][f] = 7]
  /\ calls' = [calls EXCEPT ![i].expect[f] = 7]
  /\ UNCHANGED <<parent, kind, mounted>>
  /\ UNCHANGED <<lvars, cvars>>

\* The fields a caller writes to.
MutableFields == {"width"}

NextMounted == \E v \in Values : IsMountedCall(v)

NextRect ==
  \/ \E v \in Values : GetRectCall(v)
  \/ \E i \in 1..Len(calls), f \in MutableFields : MutateResult(i, f)

\* -------------------------------------------------------------- class lists
\* Strings are sequences of characters.
Chars == {"a", "b", " ", "\t"}

\* What \s matches.
IsSpace(c) == c \in {" ", "\t"}

Strings == UNION {[1..n -> Chars] : n \in 0..MaxLen}

\* The end of the match of \s+ that starts at i: the first index after the run.
RunEnd(s, i) ==
  CHOOSE j \in (i + 1)..(Len(s) + 1) :
    /\ \A k \in i..(j - 1) : IsSpace(s[k])
    /\ (j = Len(s) + 1 \/ ~IsSpace(s[j]))

\* String.prototype.split(/\s+/g): the pieces between the matches, the empty
\* pieces before a leading and after a trailing match included; "" gives [""].
RECURSIVE SplitFrom(_, _, _, _)
SplitFrom(s, i, cur, out) ==
  IF i > Len(s) THEN Append(out, cur)
  ELSE IF IsSpace(s[i]) THEN SplitFrom(s, RunEnd(s, i), <<>>, Append(out, cur))
  ELSE SplitFrom(s, i + 1, Append(cur, s[i]), out)

Split(s) == SplitFrom(s, 1, <<>>, <<>>)

\* A filter that keeps every piece.
FilterKeepAll(pieces) == pieces

\* filter(className => !!className)
FilterTruthy(pieces) == SelectSeq(pieces, LAMBDA t : t # <<>>)

\* DOMTokenList.add / remove of one token: an empty token or one with
\* whitespace throws; add appends a token not yet present.
ValidToken(t) == t # <<>> /\ \A i \in 1..Len(t) : ~IsSpace(t[i])

RECURSIVE ForEachToken(_, _, _)
ForEachToken(st, method, toks) ==
  IF toks = <<>> \/ st.threw THEN st
  ELSE LET t == Head(toks)
           st1 == IF ~ValidToken(t)
                  THEN [st EXCEPT !.threw = TRUE]
                  ELSE [st EXCEPT
                          !.list = IF method = "add" THEN SetAdd(@, t) ELSE SetDelete(@, t),
                          !.applied = Append(@, [method |-> method, token |-> t])]
       IN  ForEachToken(st1, method, Tail(toks))

\* applyMethodToClasses(method)(classList, classes = '')
applyMethodToClasses(method, list, undef, classes) ==
  LET cls == IF undef THEN <<>> ELSE classes
  IN  ForEachToken([list |-> list, applied |-> <<>>, threw |-> FALSE],
                   method, FilterTruthy(Split(cls)))

InitTokens == {<<"a">>, <<"b">>, <<"a", "b">>}

\* The token lists a handle may hold before the call: no token twice.
InitialLists ==
  {<<>>} \cup {<<t>> : t \in InitTokens}
         \cup {<<t, u>> : <<t, u>> \in {x \in InitTokens \X InitTokens : x[1] # x[2]}}

NoCall == [method |-> "add", undef |-> TRUE, classes |-> <<>>]

\* addClasses(classList, classes) or removeClasses(classList, classes)
ApplyClasses(method, undef, classes) ==
  /\ ~cdone
  /\ LET res == applyMethodToClasses(method, classList, undef, classes)
     IN  /\ classList' = res.list
         /\ applied' = res.applied
         /\ cthrew' = res.threw
  /\ cprev' = classList
  /\ cin' = [method |-> method, undef |-> undef, classes |-> classes]
  /\ cdone' = TRUE
  /\ UNCHANGED <<lvars, dvars>>

NextClasses ==
  \/ \E m \in {"add", "remove"}, c \in Strings : ApplyClasses(m, FALSE, c)
  \/ \E m \in {"add", "remove"} : ApplyClasses(m, TRUE, <<>>)

NextRegistry ==
  \/ \E r \in Regs, s \in Subs : Add(r, s)
  \/ \E r \in Regs, h \in 1..Len(closures) : Remove(r, h)
  \/ \E r \in Regs : RemoveAll(r)
  \/ \E e \in Els, ev \in Events : Post(e, ev)
  \/ \E p \in pending : Dispatch(p)

\* The registry operations together with callers that invoke a returned
\* closure themselves.
NextCallers ==
  \/ \E r \in Regs, s \in Subs : Add(r, s)
  \/ \E r \in Regs, h \in 1..Len(closures) : Remove(r, h)
  \/ \E r \in Regs : RemoveAll(r)
  \/ \E h \in 1..Len(closures) : CallHandle(h)

\* A page with new registries, an empty document and an untouched handle.
Init ==
  /\ platform = {}
  /\ closures = <<>>
  /\ all = [r \in Regs |-> <<>>]
  /\ called = {}
  /\ pending = {}
  /\ last = NoOp
  /\ parent = [n \in Nodes |-> IF n = DocumentElement THEN DOC ELSE NULL]
  /\ kind = [n \in Nodes |-> "element"]
  /\ heap = <<ZeroRect>>
  /\ calls = <<>>
  /\ mounted = [arg |-> NULL, result |-> FALSE]
  /\ classList = <<>>
  /\ cprev = <<>>
  /\ cin = NoCall
  /\ applied = <<>>
  /\ cthrew = FALSE
  /\ cdone = FALSE

\* The same, over every document tree within the bound.
InitDom ==
  /\ platform = {}
  /\ closures = <<>>
  /\ all = [r \in Regs |-> <<>>]
  /\ called = {}
  /\ pending = {}
  /\ last = NoOp
  /\ parent \in [Nodes -> Nodes \cup {DOC, NULL}]
  /\ kind \in [Nodes -> {"element", "chardata"}]
  /\ WellFormedTree(parent, kind)
  /\ heap = <<ZeroRect>>
  /\ calls = <<>>
  /\ mounted = [arg |-> NULL, result |-> FALSE]
  /\ classList = <<>>
  /\ cprev = <<>>
  /\ cin = NoCall
  /\ applied = <<>>
  /\ cthrew = FALSE
  /\ cdone = FALSE

\* The same, over the token lists a handle may start with.
InitClasses ==
  /\ platform = {}
  /\ closures = <<>>
  /\ all = [r \in Regs |-> <<>>]
  /\ called = {}
  /\ pending = {}
  /\ last = NoOp
  /\ parent = [n \in Nodes |-> IF n = DocumentElement THEN DOC ELSE NULL]
  /\ kind = [n \in Nodes |-> "element"]
  /\ heap = <<ZeroRect>>
  /\ calls = <<>>
  /\ mounted = [arg |-> NULL, result |-> FALSE]
  /\ classList \in InitialLists
  /\ cprev = <<>>
  /\ cin = NoCall
  /\ applied = <<>>
  /\ cthrew = FALSE
  /\ cdone = FALSE

Spec == Init /\ [][NextRegistry]_vars

SpecCallers == Init /\ [][NextCallers]_vars

SpecMounted == InitDom /\ [][NextMounted]_vars

SpecRect == InitDom /\ [][NextRect]_vars

SpecClasses == InitClasses /\ [][NextClasses]_vars

\* ------------------------------------------------------------------ claims

\* C1: after h = registry.add(el, event, fn, capture) and registry.remove(h),
\* the host no longer holds the listener h stands for, no later dispatch
\* invokes a listener through a registration whose handle was removed, and the
\* registry tracks exactly one entry less than before the remove.
C1_RemoveDetaches ==
  /\ \A x \in platform : x.via \notin called
  /\ last.op = "remove" =>
       /\ SubOf(last.h) \notin PlatformSubs(platform)
       /\ last.h \in called
       /\ last.tracked => Len(all[last.reg]) = last.before - 1
  /\ last.op = "dispatch" => \A x \in last.invoked : x.via \notin called

\* A tracked, attached handle was removed while an event for its element was
\* still queued.
C1_Witness ==
  /\ last.op = "remove"
  /\ last.tracked
  /\ last.h \in last.active
  /\ [el |-> SubOf(last.h).el, event |-> SubOf(last.h).event] \in pending

\* C2: removeAll() from any reachable state ends with the registry empty, has
\* the effect of remove on each tracked action (every tracked listener
\* detached, nothing else touched), and none of the handlers it tracked stays
\* attached.
C2_RemoveAllClears ==
  /\ \A r \in Regs :
       LET res == RemoveAllEffect(Store, r, ClosureSubs)
           gone == {SubOf(h) : h \in Range(all[r])}
       IN  /\ res.all = [all EXCEPT ![r] = <<>>]
           /\ res.platform = {x \in platform : x.sub \notin gone}
           /\ res.called = called \cup Range(all[r])
  /\ last.op = "removeAll" =>
       /\ Len(all[last.reg]) = 0
       /\ \A h \in last.hs : SubOf(h) \notin PlatformSubs(platform) /\ h \in called
  /\ last.op = "dispatch" => \A x \in last.invoked : x.via \notin called

\* removeAll ran on a registry holding two entries made with identical
\* arguments.
C2_Witness ==
  /\ last.op = "removeAll"
  /\ \E h1, h2 \in last.hs : h1 # h2 /\ SubOf(h1) = SubOf(h2)

\* C3: every tracked unsubscribe action corresponds to exactly one still-active
\* platform subscription: none is stale, and no two stand for the same one.
C3_TrackedMatchesActive ==
  /\ \A h \in Tracked : SubOf(h) \in PlatformSubs(platform)
  /\ \A h1, h2 \in Tracked : h1 # h2 => SubOf(h1) # SubOf(h2)

\* C4 as stated: calling the returned action directly detaches the listener
\* and deletes the action's own entry, so no tracked action has been detached.
C4_CallRemovesEntry ==
  /\ last.op = "call" =>
       /\ SubOf(last.h) \notin PlatformSubs(platform)
       /\ last.h \notin Tracked
  /\ \A h \in Tracked : h \notin called

\* C4 amended: calling the returned action directly detaches the listener and
\* leaves the registry's tracked set as it was; the entry goes only with
\* remove or removeAll.
C4_CallKeepsEntry ==
  last.op = "call" =>
    /\ SubOf(last.h) \notin PlatformSubs(platform)
    /\ (last.h \in Range(all[last.reg])) = last.tracked
    /\ Len(all[last.reg]) = last.before

\* A tracked, attached handle was called directly.
C4_Witness ==
  /\ last.op = "call"
  /\ last.tracked
  /\ last.h \in last.active

\* C5: remove(h) of a tracked handle leaves every other tracked subscription
\* as it was: still tracked, its handler still attached.
C5_RemoveLeavesOthers ==
  (last.op = "remove" /\ last.tracked) =>
    \A k \in last.active \ {last.h} :
      k \in Tracked /\ SubOf(k) \in PlatformSubs(platform)

\* C10 as stated: the tracked count is 0 at first, grows by one with every add,
\* shrinks by one with every remove and is 0 after removeAll.
C10_CountLifecycle ==
  /\ last.op = "init" => \A r \in Regs : Len(all[r]) = 0
  /\ last.op = "add" =>
       /\ Len(all[last.reg]) = last.before + 1
       /\ Cardinality(Range(all[last.reg])) = Len(all[last.reg])
  /\ last.op = "remove" => Len(all[last.reg]) = last.before - 1
  /\ last.op = "removeAll" => Len(all[last.reg]) = 0

\* C10 amended: as stated, except that a remove shrinks the count by one when
\* its handle is tracked and leaves it unchanged when it is not.
C10_CountLifecycleTracked ==
  /\ last.op = "init" => \A r \in Regs : Len(all[r]) = 0
  /\ last.op = "add" =>
       /\ Len(all[last.reg]) = last.before + 1
       /\ Cardinality(Range(all[last.reg])) = Len(all[last.reg])
  /\ last.op = "remove" =>
       Len(all[last.reg]) = last.before - (IF last.tracked THEN 1 ELSE 0)
  /\ last.op = "removeAll" => Len(all[last.reg]) = 0

\* An add repeated arguments already tracked by the same registry.
C10_Witness ==
  /\ last.op = "add"
  /\ \E k \in Range(all[last.reg]) \ {last.h} : SubOf(k) = SubOf(last.h)

\* The nodes the document holds: the root element and everything reachable
\* from it by child links.
RECURSIVE ReachableFromRoot(_, _)
ReachableFromRoot(S, fuel) ==
  IF fuel = 0 THEN S
  ELSE ReachableFromRoot(S \cup {n \in Nodes : parent[n] \in S}, fuel - 1)

\* Mounted, as the glossary defines it.
Mounted(v) ==
  \/ v = DOC
  \/ v \in ReachableFromRoot({DocumentElement}, MaxNodes)

\* C6: isMounted(n) is true exactly when n is the document or is reachable
\* from the root element by parent links, the root element included.
C6_IsMountedIffReachable ==
  mounted.result = Mounted(mounted.arg)

\* C7: for every mounted node, the document and the root element included,
\* getRect returns without throwing a rectangle equal to the native one.
C7_MountedRectIsNative ==
  \A i \in 1..Len(calls) :
    Mounted(calls[i].arg) =>
      ~calls[i].threw /\ calls[i].ret = NativeRect(calls[i].arg)

\* C8: for every detached node (not mounted, not a range) getRect returns
\* all zeros in an object of its own: no other call returned it, it is not
\* rectStub, and it holds what its own caller wrote to it and nothing else.
C8_DetachedRectIsFreshZero ==
  /\ \A i \in 1..Len(calls) :
       (calls[i].arg # RANGE /\ ~Mounted(calls[i].arg)) =>
         /\ ~calls[i].threw
         /\ calls[i].ret = ZeroRect
         /\ calls[i].ref # StubAddr
         /\ heap[calls[i].ref] = calls[i].expect
         /\ \A j \in 1..Len(calls) :
              (j # i /\ ~calls[j].threw) => calls[j].ref # calls[i].ref
  /\ heap[StubAddr] = ZeroRect

\* Two calls on detached nodes were made and the result of the first was
\* written to before the second.
C8_Witness ==
  /\ Len(calls) >= 2
  /\ \A i \in 1..2 : calls[i].arg \in Nodes /\ ~Mounted(calls[i].arg)
  /\ calls[1].expect # ZeroRect
  /\ calls[2].expect = ZeroRect

\* The starts of the maximal runs of non-whitespace characters of s.
TokenStarts(s) ==
  {i \in 1..Len(s) : ~IsSpace(s[i]) /\ (i = 1 \/ IsSpace(s[i - 1]))}

\* The run that starts at i.
TokenAt(s, i) ==
  LET e == CHOOSE j \in i..Len(s) :
             /\ \A k \in i..j : ~IsSpace(s[k])
             /\ (j = Len(s) \/ IsSpace(s[j + 1]))
  IN  SubSeq(s, i, e)

\* The whitespace-separated tokens of s in order of appearance.
RECURSIVE TokensFrom(_, _)
TokensFrom(s, starts) ==
  IF starts = {} THEN <<>>
  ELSE LET i == CHOOSE m \in starts : \A n \in starts : m <= n
       IN  <<TokenAt(s, i)>> \o TokensFrom(s, starts \ {i})

\* C9: addClasses / removeClasses applies its verb once per non-empty
\* whitespace-separated token, one token per call and in order, never throws,
\* and leaves the handle with its previous tokens plus (minus) those; an
\* empty, undefined or all-whitespace string changes nothing.
C9_OneCallPerToken ==
  cdone =>
    LET str == IF cin.undef THEN <<>> ELSE cin.classes
        toks == TokensFrom(str, TokenStarts(str))
    IN  /\ ~cthrew
        /\ applied = [i \in 1..Len(toks) |-> [method |-> cin.method, token |-> toks[i]]]
        /\ Range(classList) = IF cin.method = "add"
                              THEN Range(cprev) \cup Range(toks)
                              ELSE Range(cprev) \ Range(toks)
        /\ Cardinality(Range(classList)) = Len(classList)
        /\ (\A i \in 1..Len(str) : IsSpace(str[i])) =>
             applied = <<>> /\ classList = cprev

\* addClasses(handle, "a  b") was called on a handle holding neither.
C9_Witness ==
  /\ cdone
  /\ cin = [method |-> "add", undef |-> FALSE, classes |-> <<"a", " ", " ", "b">>]
  /\ cprev = <<>>
  /\ classList = <<<<"a">>, <<"b">>>>

====
